---- MODULE Spec2Model ----
(***************************************************************************)
(* Model of the API gateway in src/services/gateway_service/app.py:        *)
(* the Backend Client (ServiceClient.make_request), the orchestration      *)
(* workflows of ServiceClient and the Flask routes that wrap them.         *)
(*                                                                         *)
(* A gateway request is a sequential handler that blocks on each backend   *)
(* call.  One action starts a route (up to its first backend call); every  *)
(* other action resumes the handler with the reply of the call it waits    *)
(* for and runs it up to the next backend call or to the HTTP response.    *)
(* The three backend services are external: every reply is drawn from the  *)
(* replies an HTTP service can give.                                       *)
(*                                                                         *)
(* Python values are records tagged by t; a dict is a record whose DOMAIN  *)
(* is its key set (plus the tag), so that "key in dict", del and KeyError  *)
(* are modelled by what they do.  Money is kept in hundredths where the    *)
(* code multiplies by (1 - discount / 100).                                *)
(***************************************************************************)
EXTENDS Integers, Sequences, FiniteSets, TLC

VARIABLES req, pc, loc, calls, replies, result, resp

vars == <<req, pc, loc, calls, replies, result, resp>>

\* Largest reservation list the reservation service returns.
MaxList == 2

\* Concurrent request slots of the gateway; Spec runs the first one only.
Reqs == {"r1", "r2"}

Active == {"r1"}

-----------------------------------------------------------------------------
\* Values

None == [t |-> "none"]

\* JSON null in a response body.
JNull == [t |-> "null"]

\* JSON {} in a response body.
JEmptyObj == [t |-> "emptyobj"]

\* A non-empty JSON object that has none of the keys the gateway reads.
JPartial == [t |-> "partial", other |-> "x"]

NoHeader == "NO_HEADER"

Users == {"alice", "bob"}

ReservationUids == {"u1", "u2"}

PaymentUids == {"p1"}

ReservationStatus == {"PAID", "RESERVED", "CANCELED"}

PaymentStatus == {"PAID", "REVERSED", "CANCELED"}

LoyaltyStatus == {"BRONZE", "SILVER", "GOLD"}

\* Python truthiness of a value returned by make_request.
Truthy(v) ==
    CASE v.t \in {"none", "null", "emptyobj"} -> FALSE
      [] v.t = "list" -> Len(v.items) > 0
      [] OTHER -> TRUE

HasKey(d, k) == k \in DOMAIN d

SetKey(d, k, v) == [x \in (DOMAIN d) \cup {k} |-> IF x = k THEN v ELSE d[x]]

DelKey(d, k) == [x \in (DOMAIN d) \ {k} |-> d[x]]

SeqsUpTo(S, n) == UNION {[1..k -> S] : k \in 0..n}

-----------------------------------------------------------------------------
\* Calendar dates <<year, month, day>> and datetime arithmetic

IsLeap(y) == (y % 4 = 0) /\ ((y % 100 # 0) \/ (y % 400 = 0))

DaysInMonth(y, m) ==
    IF m = 2 THEN (IF IsLeap(y) THEN 29 ELSE 28)
    ELSE IF m \in {4, 6, 9, 11} THEN 30 ELSE 31

RECURSIVE DaysBeforeMonth(_, _)
DaysBeforeMonth(y, m) ==
    IF m <= 1 THEN 0 ELSE DaysBeforeMonth(y, m - 1) + DaysInMonth(y, m - 1)

DaysBeforeYear(y) ==
    (y - 1) * 365 + ((y - 1) \div 4) - ((y - 1) \div 100) + ((y - 1) \div 400)

ValidDate(d) ==
    /\ d[2] \in 1..12
    /\ d[3] >= 1
    /\ d[3] <= DaysInMonth(d[1], d[2])

\* datetime.fromisoformat(s).toordinal()
ToOrdinal(d) == DaysBeforeYear(d[1]) + DaysBeforeMonth(d[1], d[2]) + d[3]

\* (end_date - start_date).days
Nights(start, end) == ToOrdinal(end) - ToOrdinal(start)

-----------------------------------------------------------------------------
\* Backend replies

Reply(kind, body) == [kind |-> kind, body |-> body]

\* Replies that carry no usable body: unreachable, 404, another non-2xx,
\* and a 2xx with empty content.
BareReplies == {Reply(k, None) : k \in {"conn", "404", "5xx", "empty"}}

Replies(bodies) ==
    BareReplies \cup {Reply("json", b) : b \in bodies \cup {JNull, JEmptyObj, JPartial}}

\* Bodies of the reservation service for GET /reservations[/uid]: the
\* service's own status key is not part of ReservationResponseSchema.
BackendReservation(uid) ==
    [t |-> "reservation", reservationUid |-> uid, hotel |-> "h1",
     startDate |-> <<2024, 1, 1>>, endDate |-> <<2024, 1, 4>>,
     status |-> "PAID"]

BackendReservations == {BackendReservation(u) : u \in ReservationUids}

BackendReservationLists ==
    {[t |-> "list", items |-> s] : s \in SeqsUpTo(BackendReservations, MaxList)}

\* Bodies of the payment service: a payment record.
BackendPayments ==
    {[t |-> "payment", paymentUid |-> p, status |-> s, price |-> 27000]
        : p \in PaymentUids, s \in PaymentStatus}

BackendLoyalties ==
    {[t |-> "loyalty", status |-> "BRONZE", discount |-> d, reservationCount |-> 1]
        : d \in {0, 10}}

\* Bodies of the reservation service for POST /reservations: the created
\* reservation with the hotel's nightly price.
CreateDates == {<<2024, 1, 1>>, <<2024, 1, 4>>, <<2024, 2, 28>>, <<2024, 3, 1>>,
                <<2024, 2, 30>>}

NightlyPrices == {100, 150}

BackendCreated ==
    {[t |-> "created", reservationUid |-> "u1", hotelUid |-> "h1",
      startDate |-> s, endDate |-> e, price |-> p]
        : s \in CreateDates, e \in CreateDates, p \in NightlyPrices}

\* Bodies of POST /api/v1/reservations sent by the client.
CreateRequests ==
    {[t |-> "request", hotelUid |-> "h1", startDate |-> <<2024, 1, 1>>, endDate |-> e]
        : e \in {<<2024, 1, 4>>, <<2024, 3, 1>>}}

BackendHotelPages ==
    {[t |-> "page", page |-> 1, pageSize |-> 10, totalElements |-> n, items |-> "hotels"]
        : n \in {0, 1}}

-----------------------------------------------------------------------------
\* Outcomes of a call: a returned value or a raised exception

Return(v) == [k |-> "ret", v |-> v, exc |-> "", msg |-> ""]

Raise(exc, msg) == [k |-> "raise", v |-> None, exc |-> exc, msg |-> msg]

NoOutcome == [k |-> "none", v |-> None, exc |-> "", msg |-> ""]

\* schema.load for the schemas the gateway passes to make_request:
\* unknown keys are excluded, a body of another shape is a ValidationError.
KnownKeys(schema) ==
    CASE schema = "reservation" -> {"t", "reservationUid", "hotel", "startDate", "endDate"}
      [] schema = "loyalty" -> {"t", "status", "discount", "reservationCount"}
      [] schema = "page" -> {"t", "page", "pageSize", "totalElements", "items"}

ValidBody(schema, b) ==
    CASE schema = "reservations" -> b.t = "list"
      [] schema = "reservation" ->
            b.t = "reservation" /\ ValidDate(b.startDate) /\ ValidDate(b.endDate)
      [] schema = "loyalty" -> b.t = "loyalty" /\ b.status \in LoyaltyStatus
      [] schema = "page" -> b.t = "page"

LoadOne(schema, b) == [x \in (DOMAIN b) \cap KnownKeys(schema) |-> b[x]]

SchemaLoad(schema, b) ==
    IF schema = "reservations"
    THEN [t |-> "list",
          items |-> [i \in 1..Len(b.items) |-> LoadOne("reservation", b.items[i])]]
    ELSE LoadOne(schema, b)

NoSchema == "none"

\* ServiceClient.make_request: one backend call, classified.
make_request(schema, reply) ==
    CASE reply.kind = "conn" -> Raise("ConnectionError", "")
      [] reply.kind = "404" -> Raise("SchemaValidationError", "Resource not found")
      [] reply.kind = "5xx" -> Raise("HTTPError", "")
      [] reply.kind = "empty" -> Return(None)
      [] reply.kind = "json" ->
            IF schema # NoSchema
            THEN IF ValidBody(schema, reply.body)
                 THEN Return(SchemaLoad(schema, reply.body))
                 ELSE Raise("SchemaValidationError", "Invalid response format")
            ELSE Return(IF reply.body = JNull THEN None ELSE reply.body)

-----------------------------------------------------------------------------
\* HTTP responses of the gateway

NoResp == [status |-> 0, handled |-> TRUE, message |-> "", body |-> None]

Response(status, message, body) ==
    [status |-> status, handled |-> TRUE, message |-> message, body |-> body]

\* An exception no handler catches: Flask answers 500.
Unhandled(exc) ==
    [status |-> 500, handled |-> FALSE, message |-> exc, body |-> None]

\* Routes wrapped in @handle_service_error.
Decorated == {"hotels", "list", "me"}

handle_service_error(outcome) ==
    CASE outcome.exc = "SchemaValidationError" -> Response(400, outcome.msg, None)
      [] outcome.exc = "ConnectionError" -> Response(503, "Service temporarily unavailable", None)
      [] outcome.exc = "HTTPError" -> Response(500, "Internal service error", None)
      [] OTHER -> Unhandled(outcome.exc)

\* What the route of op answers for the outcome of its ServiceClient call.
RouteResponse(op, outcome) ==
    IF outcome.k = "raise"
    THEN IF op \in Decorated THEN handle_service_error(outcome) ELSE Unhandled(outcome.exc)
    ELSE IF op = "cancel"
         THEN Response(204, "Reservation canceled", None)
         ELSE Response(200, "", outcome.v)

-----------------------------------------------------------------------------
\* State

NoReq == [op |-> "none", user |-> NoHeader, uid |-> "-", data |-> None]

NoLoc == [reservation |-> None, pending |-> <<>>, acc |-> <<>>,
          payment |-> None, loyalty |-> None]

Call(svc, method, path, key, user, json) ==
    [svc |-> svc, method |-> method, path |-> path, key |-> key,
     user |-> user, json |-> json]

Init ==
    /\ req = [r \in Reqs |-> NoReq]
    /\ pc = [r \in Reqs |-> "idle"]
    /\ loc = [r \in Reqs |-> NoLoc]
    /\ calls = [r \in Reqs |-> <<>>]
    /\ replies = [r \in Reqs |-> <<>>]
    /\ result = [r \in Reqs |-> NoOutcome]
    /\ resp = [r \in Reqs |-> NoResp]

\* The handler of r ends: its ServiceClient call had this outcome.
Finish(r, outcome) ==
    /\ result' = [result EXCEPT ![r] = outcome]
    /\ resp' = [resp EXCEPT ![r] = RouteResponse(req[r].op, outcome)]
    /\ pc' = [pc EXCEPT ![r] = "done"]

\* The handler of r issues a backend call and waits for its reply at next.
Issue(r, call, next) ==
    /\ calls' = [calls EXCEPT ![r] = Append(@, call)]
    /\ pc' = [pc EXCEPT ![r] = next]
    /\ UNCHANGED <<result, resp>>

Received(r, reply) == replies' = [replies EXCEPT ![r] = Append(@, reply)]

\* ServiceClient._check_user_header
_check_user_header(user) ==
    IF user = NoHeader
    THEN Raise("SchemaValidationError", "X-User-Name header is required")
    ELSE Return(user)

\* A route that checks the identity header, then issues its first call.
StartChecked(r, request, call, next) ==
    /\ req' = [req EXCEPT ![r] = request]
    /\ UNCHANGED <<loc, replies>>
    /\ IF _check_user_header(request.user).k = "raise"
       THEN /\ result' = [result EXCEPT ![r] = _check_user_header(request.user)]
            /\ resp' = [resp EXCEPT ![r] =
                           RouteResponse(request.op, _check_user_header(request.user))]
            /\ pc' = [pc EXCEPT ![r] = "done"]
            /\ UNCHANGED calls
       ELSE Issue(r, call, next)

-----------------------------------------------------------------------------
\* The merge of a reservation with the reply of its payment lookup
\* (the body of the loop of get_user_reservations, and get_reservation_by_id).

\* PaymentLookup that sends no identity header.
PaymentLookup_anonymous(user, reservation) ==
    Call("payment", "GET", "/payment", reservation.reservationUid, NoHeader, None)

PaymentLookup(user, reservation) ==
    Call("payment", "GET", "/payment", reservation.reservationUid, user, None)

merge(reservation, payment) ==
    IF ~Truthy(payment)
    THEN Return(SetKey(SetKey(reservation, "payment", [t |-> "empty"]),
                       "status", "RESERVED"))
    ELSE IF ~HasKey(payment, "paymentUid") THEN Raise("KeyError", "paymentUid")
    ELSE IF ~HasKey(payment, "status") THEN Raise("KeyError", "status")
    ELSE Return(SetKey(SetKey(reservation, "payment", DelKey(payment, "paymentUid")),
                       "status", payment.status))

-----------------------------------------------------------------------------
\* GET /api/v1/hotels

StartHotels(r) ==
    /\ pc[r] = "idle"
    /\ \E u \in Users \cup {NoHeader} :
        req' = [req EXCEPT ![r] = [op |-> "hotels", user |-> u, uid |-> "-",
                                   data |-> [t |-> "args", page |-> 1, size |-> 10]]]
    /\ Issue(r, Call("reservation", "GET", "/hotels", "-", NoHeader,
                     [t |-> "args", page |-> 1, size |-> 10]), "hotels")
    /\ UNCHANGED <<loc, replies>>

\* HotelsReply that issues the call once more when the backend was unreachable.
HotelsReply_retrying(r) ==
    /\ pc[r] = "hotels"
    /\ \E reply \in Replies(BackendHotelPages) :
        /\ Received(r, reply)
        /\ IF reply.kind = "conn" /\ Len(calls[r]) < 2
           THEN Issue(r, calls[r][1], "hotels")
           ELSE Finish(r, make_request("page", reply)) /\ UNCHANGED calls
    /\ UNCHANGED <<req, loc>>

HotelsReply(r) ==
    /\ pc[r] = "hotels"
    /\ \E reply \in Replies(BackendHotelPages) :
        /\ Received(r, reply)
        /\ Finish(r, make_request("page", reply))
    /\ UNCHANGED <<req, loc, calls>>

-----------------------------------------------------------------------------
\* GET /api/v1/reservations and GET /api/v1/me: get_user_reservations

StartList(r) ==
    /\ pc[r] = "idle"
    /\ \E u \in Users \cup {NoHeader} :
        StartChecked(r, [op |-> "list", user |-> u, uid |-> "-", data |-> None],
                     Call("reservation", "GET", "/reservations", "-", u, None),
                     "list_reservations")

StartMe(r) ==
    /\ pc[r] = "idle"
    /\ \E u \in Users \cup {NoHeader} :
        StartChecked(r, [op |-> "me", user |-> u, uid |-> "-", data |-> None],
                     Call("reservation", "GET", "/reservations", "-", u, None),
                     "list_reservations")

LoyaltyLookup(user) == Call("loyalty", "GET", "/loyalty", "-", user, None)

\* get_user_reservations returned v to its route.
ReservationsReturned(r, v) ==
    IF req[r].op = "me"
    THEN /\ Issue(r, LoyaltyLookup(req[r].user), "me_loyalty")
         /\ loc' = [loc EXCEPT ![r].reservation = v, ![r].pending = <<>>, ![r].acc = <<>>]
    ELSE /\ Finish(r, Return(v))
         /\ loc' = [loc EXCEPT ![r].pending = <<>>, ![r].acc = <<>>]
         /\ UNCHANGED calls

ListReservationsReply(r) ==
    /\ pc[r] = "list_reservations"
    /\ UNCHANGED req
    /\ \E reply \in Replies(BackendReservationLists) :
        /\ Received(r, reply)
        /\ LET out == make_request("reservations", reply) IN
           IF out.k = "raise"
           THEN Finish(r, out) /\ UNCHANGED <<loc, calls>>
           ELSE IF ~Truthy(out.v)
           THEN ReservationsReturned(r, None)
           ELSE /\ loc' = [loc EXCEPT ![r].pending = out.v.items, ![r].acc = <<>>]
                /\ Issue(r, PaymentLookup(req[r].user, out.v.items[1]), "list_payment")

\* accumulate on one shared dict: the status and payment of the reservation
\* merged last show in every reservation accumulated before it.
accumulate_aliased(acc, merged) ==
    Append([i \in 1..Len(acc) |->
                SetKey(SetKey(acc[i], "payment", merged.payment), "status", merged.status)],
           merged)

\* all_user_reservations.append(reservation)
accumulate(acc, merged) == Append(acc, merged)

ListPaymentReply(r) ==
    /\ pc[r] = "list_payment"
    /\ UNCHANGED req
    /\ \E reply \in Replies(BackendPayments) :
        /\ Received(r, reply)
        /\ LET out == make_request(NoSchema, reply) IN
           IF out.k = "raise"
           THEN Finish(r, out) /\ UNCHANGED <<loc, calls>>
           ELSE LET m == merge(Head(loc[r].pending), out.v)
                    rest == Tail(loc[r].pending)
                IN IF m.k = "raise"
                   THEN Finish(r, m) /\ UNCHANGED <<loc, calls>>
                   ELSE IF rest # <<>>
                   THEN /\ loc' = [loc EXCEPT ![r].pending = rest,
                                              ![r].acc = accumulate(@, m.v)]
                        /\ Issue(r, PaymentLookup(req[r].user, rest[1]), "list_payment")
                   ELSE ReservationsReturned(r,
                            [t |-> "list", items |-> accumulate(loc[r].acc, m.v)])

MeLoyaltyReply(r) ==
    /\ pc[r] = "me_loyalty"
    /\ UNCHANGED <<req, calls>>
    /\ \E reply \in Replies(BackendLoyalties) :
        /\ Received(r, reply)
        /\ LET out == make_request("loyalty", reply) IN
           IF out.k = "raise"
           THEN Finish(r, out) /\ UNCHANGED loc
           ELSE /\ Finish(r, Return([t |-> "user_info",
                                     reservations |-> loc[r].reservation,
                                     loyalty |-> out.v]))
                /\ loc' = [loc EXCEPT ![r].loyalty = out.v]

-----------------------------------------------------------------------------
\* GET /api/v1/reservations/{uid}: get_reservation_by_id

StartGet(r) ==
    /\ pc[r] = "idle"
    /\ \E u \in Users \cup {NoHeader}, uid \in ReservationUids :
        StartChecked(r, [op |-> "get", user |-> u, uid |-> uid, data |-> None],
                     Call("reservation", "GET", "/reservations", uid, u, None),
                     "get_reservation")

GetReservationReply(r) ==
    /\ pc[r] = "get_reservation"
    /\ UNCHANGED req
    /\ \E reply \in Replies(BackendReservations) :
        /\ Received(r, reply)
        /\ LET out == make_request("reservation", reply) IN
           IF out.k = "raise"
           THEN Finish(r, out) /\ UNCHANGED <<loc, calls>>
           ELSE IF ~Truthy(out.v)
           THEN Finish(r, Return(None)) /\ UNCHANGED <<loc, calls>>
           ELSE /\ loc' = [loc EXCEPT ![r].reservation = out.v]
                /\ Issue(r, PaymentLookup(req[r].user, out.v), "get_payment")

\* GetPaymentReply with the reservation kept in a field of the one
\* service_client: a concurrent get that wrote the field last is merged.
GetPaymentReply_shared(r) ==
    /\ pc[r] = "get_payment"
    /\ UNCHANGED <<req, calls>>
    /\ \E reply \in Replies(BackendPayments) :
        /\ Received(r, reply)
        /\ LET out == make_request(NoSchema, reply)
               q == IF \E p \in Reqs \ {r} : pc[p] = "get_payment"
                    THEN CHOOSE p \in Reqs \ {r} : pc[p] = "get_payment"
                    ELSE r
           IN
           IF out.k = "raise"
           THEN Finish(r, out) /\ UNCHANGED loc
           ELSE /\ Finish(r, merge(loc[q].reservation, out.v))
                /\ loc' = [loc EXCEPT ![r].payment = out.v]

GetPaymentReply(r) ==
    /\ pc[r] = "get_payment"
    /\ UNCHANGED <<req, calls>>
    /\ \E reply \in Replies(BackendPayments) :
        /\ Received(r, reply)
        /\ LET out == make_request(NoSchema, reply) IN
           IF out.k = "raise"
           THEN Finish(r, out) /\ UNCHANGED loc
           ELSE /\ Finish(r, merge(loc[r].reservation, out.v))
                /\ loc' = [loc EXCEPT ![r].payment = out.v]

-----------------------------------------------------------------------------
\* DELETE /api/v1/reservations/{uid}: delete_reservation_by_id

IntVal(n) == [t |-> "int", n |-> n]

\* A body a DELETE may answer with instead of no content.
DeleteBodies == {[t |-> "message", message |-> "deleted"]}

StartCancel(r) ==
    /\ pc[r] = "idle"
    /\ \E u \in Users \cup {NoHeader}, uid \in ReservationUids :
        StartChecked(r, [op |-> "cancel", user |-> u, uid |-> uid, data |-> None],
                     Call("reservation", "DELETE", "/reservations", uid, u, None),
                     "cancel_delete")

CancelDeleteReply(r) ==
    /\ pc[r] = "cancel_delete"
    /\ UNCHANGED <<req, loc>>
    /\ \E reply \in Replies(DeleteBodies) :
        /\ Received(r, reply)
        /\ LET out == make_request(NoSchema, reply) IN
           IF out.k = "raise"
           THEN Finish(r, out) /\ UNCHANGED calls
           ELSE IF out.v = None
           THEN Issue(r, Call("payment", "GET", "/payment", req[r].uid, req[r].user, None),
                      "cancel_payment")
           ELSE Finish(r, Return(IntVal(504))) /\ UNCHANGED calls

CancelPaymentReply(r) ==
    /\ pc[r] = "cancel_payment"
    /\ UNCHANGED req
    /\ \E reply \in Replies(BackendPayments) :
        /\ Received(r, reply)
        /\ LET out == make_request(NoSchema, reply) IN
           IF out.k = "raise"
           THEN Finish(r, out) /\ UNCHANGED <<loc, calls>>
           ELSE IF ~Truthy(out.v)
           THEN Finish(r, Return(IntVal(501))) /\ UNCHANGED <<loc, calls>>
           ELSE IF ~HasKey(out.v, "paymentUid")
           THEN Finish(r, Raise("KeyError", "paymentUid")) /\ UNCHANGED <<loc, calls>>
           ELSE /\ loc' = [loc EXCEPT ![r].payment = out.v]
                /\ Issue(r, Call("payment", "DELETE", "/payment", out.v.paymentUid,
                                 req[r].user, None), "cancel_payment_delete")

CancelPaymentDeleteReply(r) ==
    /\ pc[r] = "cancel_payment_delete"
    /\ UNCHANGED <<req, loc, calls>>
    /\ \E reply \in Replies(DeleteBodies) :
        /\ Received(r, reply)
        /\ LET out == make_request(NoSchema, reply) IN
           IF out.k = "raise"
           THEN Finish(r, out)
           ELSE IF out.v = None
           THEN Finish(r, Return(IntVal(204)))
           ELSE Finish(r, Return(IntVal(504)))

-----------------------------------------------------------------------------
\* POST /api/v1/reservations: create_reservation

\* A step of a workflow either ends the handler with an outcome or goes on
\* to the next backend call with a value.
Abort(outcome) == [go |-> FALSE, out |-> outcome]

Continue(v) == [go |-> TRUE, out |-> Return(v)]

\* A reservation the workflow would go on with after a swallowed failure.
PlaceholderReservation ==
    [t |-> "created", reservationUid |-> "u1", hotelUid |-> "h1",
     startDate |-> <<2024, 1, 1>>, endDate |-> <<2024, 1, 1>>, price |-> 100,
     status |-> "RESERVED"]

\* reservation_created with the failure of step 1 swallowed.
reservation_created_swallowed(out) ==
    IF out.k = "raise" \/ ~Truthy(out.v) \/ ~HasKey(out.v, "startDate")
    THEN Continue(PlaceholderReservation)
    ELSE IF ~(ValidDate(out.v.startDate) /\ ValidDate(out.v.endDate))
    THEN Abort(Raise("ValueError", "fromisoformat"))
    ELSE Continue(SetKey(out.v, "status", "RESERVED"))

\* Lines 203-216: what create_reservation does with the outcome of step 1.
reservation_created(out) ==
    IF out.k = "raise" THEN Abort(out)
    ELSE IF ~Truthy(out.v) THEN Abort(Return(None))
    ELSE IF ~HasKey(out.v, "startDate") THEN Abort(Raise("KeyError", "startDate"))
    ELSE IF ~(ValidDate(out.v.startDate) /\ ValidDate(out.v.endDate))
    THEN Abort(Raise("ValueError", "fromisoformat"))
    ELSE Continue(SetKey(out.v, "status", "RESERVED"))

\* discounted_price with the discount taken off the price instead of applied
\* to it as a percentage.
discounted_price_subtracted(total_price, discount) == (total_price - discount) * 100

\* total_price * (1 - loyalty['discount'] / 100), in hundredths
discounted_price(total_price, discount) == total_price * (100 - discount)

payment_json(reservation, discount) ==
    [t |-> "payment_json",
     price |-> discounted_price(
                   reservation.price * Nights(reservation.startDate, reservation.endDate),
                   discount),
     reservationUid |-> reservation.reservationUid,
     status |-> "PAID"]

\* Lines 219-225: what create_reservation does with the outcome of the
\* loyalty lookup.
loyalty_fetched(reservation, out) ==
    IF out.k = "raise" THEN Abort(out)
    ELSE IF out.v = None THEN Abort(Raise("TypeError", "loyalty"))
    ELSE IF ~HasKey(out.v, "discount") THEN Abort(Raise("KeyError", "discount"))
    ELSE Continue(SetKey(reservation, "discount", out.v.discount))

\* attach_payment that embeds whatever came back and marks the reservation paid.
attach_payment_unchecked(reservation, payment) ==
    Return(SetKey(SetKey(reservation, "payment", payment), "status", "PAID"))

\* attach_payment that embeds the payment and leaves the status as it was.
attach_payment_status_kept(reservation, payment) ==
    IF ~HasKey(payment, "status")
    THEN Raise("KeyError", "status")
    ELSE Return(SetKey(reservation, "payment", payment))

\* Lines 240-242: the payment is attached and its status copied.
attach_payment(reservation, payment) ==
    IF ~HasKey(payment, "status")
    THEN Raise("KeyError", "status")
    ELSE Return(SetKey(SetKey(reservation, "payment", payment), "status", payment.status))

StartCreate(r) ==
    /\ pc[r] = "idle"
    /\ \E u \in Users \cup {NoHeader}, data \in CreateRequests :
        StartChecked(r, [op |-> "create", user |-> u, uid |-> "-", data |-> data],
                     Call("reservation", "POST", "/reservations", "-", u, data),
                     "create_reservation")

CreateReservationReply(r) ==
    /\ pc[r] = "create_reservation"
    /\ UNCHANGED req
    /\ \E reply \in Replies(BackendCreated) :
        /\ Received(r, reply)
        /\ LET step == reservation_created(make_request(NoSchema, reply)) IN
           IF ~step.go
           THEN Finish(r, step.out) /\ UNCHANGED <<loc, calls>>
           ELSE /\ loc' = [loc EXCEPT ![r].reservation = step.out.v]
                /\ Issue(r, LoyaltyLookup(req[r].user), "create_loyalty")

CreateLoyaltyReply(r) ==
    /\ pc[r] = "create_loyalty"
    /\ UNCHANGED req
    /\ \E reply \in Replies(BackendLoyalties) :
        /\ Received(r, reply)
        /\ LET out == make_request(NoSchema, reply)
               step == loyalty_fetched(loc[r].reservation, out)
           IN
           IF ~step.go
           THEN Finish(r, step.out) /\ UNCHANGED <<loc, calls>>
           ELSE /\ loc' = [loc EXCEPT ![r].loyalty = out.v,
                                      ![r].reservation = step.out.v]
                /\ Issue(r, Call("payment", "POST", "/payment", "-", req[r].user,
                                 payment_json(loc[r].reservation, out.v.discount)),
                         "create_payment")

\* CreatePaymentReply with a compensation: a failed payment creation deletes
\* the reservation created in step 1.
CreatePaymentReply_rollback(r) ==
    /\ pc[r] = "create_payment"
    /\ UNCHANGED req
    /\ \E reply \in Replies(BackendPayments) :
        /\ Received(r, reply)
        /\ LET out == make_request(NoSchema, reply) IN
           IF out.k = "raise"
           THEN /\ Finish(r, out)
                /\ calls' = [calls EXCEPT ![r] =
                                Append(@, Call("reservation", "DELETE", "/reservations",
                                               loc[r].reservation.reservationUid,
                                               req[r].user, None))]
                /\ UNCHANGED loc
           ELSE IF ~Truthy(out.v)
           THEN /\ Finish(r, Return(DelKey(loc[r].reservation, "price")))
                /\ loc' = [loc EXCEPT ![r].payment = out.v,
                                      ![r].reservation = DelKey(@, "price")]
                /\ UNCHANGED calls
           ELSE LET a == attach_payment(loc[r].reservation, out.v) IN
                IF a.k = "raise"
                THEN Finish(r, a) /\ UNCHANGED <<loc, calls>>
                ELSE /\ loc' = [loc EXCEPT ![r].payment = out.v, ![r].reservation = a.v]
                     /\ Issue(r, Call("loyalty", "POST", "/loyalty", "-", req[r].user, None),
                              "create_loyalty_update")

CreatePaymentReply(r) ==
    /\ pc[r] = "create_payment"
    /\ UNCHANGED req
    /\ \E reply \in Replies(BackendPayments) :
        /\ Received(r, reply)
        /\ LET out == make_request(NoSchema, reply) IN
           IF out.k = "raise"
           THEN Finish(r, out) /\ UNCHANGED <<loc, calls>>
           ELSE IF ~Truthy(out.v)
           THEN /\ Finish(r, Return(DelKey(loc[r].reservation, "price")))
                /\ loc' = [loc EXCEPT ![r].payment = out.v,
                                      ![r].reservation = DelKey(@, "price")]
                /\ UNCHANGED calls
           ELSE LET a == attach_payment(loc[r].reservation, out.v) IN
                IF a.k = "raise"
                THEN Finish(r, a) /\ UNCHANGED <<loc, calls>>
                ELSE /\ loc' = [loc EXCEPT ![r].payment = out.v, ![r].reservation = a.v]
                     /\ Issue(r, Call("loyalty", "POST", "/loyalty", "-", req[r].user, None),
                              "create_loyalty_update")

CreateLoyaltyUpdateReply(r) ==
    /\ pc[r] = "create_loyalty_update"
    /\ UNCHANGED <<req, calls>>
    /\ \E reply \in Replies(BackendLoyalties) :
        /\ Received(r, reply)
        /\ LET out == make_request(NoSchema, reply) IN
           IF out.k = "raise"
           THEN Finish(r, out) /\ UNCHANGED loc
           ELSE /\ Finish(r, Return(DelKey(loc[r].reservation, "price")))
                /\ loc' = [loc EXCEPT ![r].loyalty = out.v,
                                      ![r].reservation = DelKey(@, "price")]

-----------------------------------------------------------------------------
\* GET /api/v1/loyalty: the passthrough route, which calls requests.get itself

StartLoyalty(r) ==
    /\ pc[r] = "idle"
    /\ \E u \in Users \cup {NoHeader} :
        /\ req' = [req EXCEPT ![r] = [op |-> "loyalty", user |-> u, uid |-> "-",
                                      data |-> None]]
        /\ Issue(r, LoyaltyLookup(u), "loyalty")
    /\ UNCHANGED <<loc, replies>>

\* jsonify(response.json()), response.status_code
passthrough(reply) ==
    CASE reply.kind = "conn" -> Unhandled("ConnectionError")
      [] reply.kind = "404" -> Response(404, "", None)
      [] reply.kind = "5xx" -> Response(500, "", None)
      [] reply.kind = "empty" -> Unhandled("JSONDecodeError")
      [] reply.kind = "json" ->
            Response(200, "", IF reply.body = JNull THEN None ELSE reply.body)

LoyaltyReply(r) ==
    /\ pc[r] = "loyalty"
    /\ UNCHANGED <<req, loc, calls, result>>
    /\ \E reply \in Replies(BackendLoyalties) :
        /\ Received(r, reply)
        /\ resp' = [resp EXCEPT ![r] = passthrough(reply)]
        /\ pc' = [pc EXCEPT ![r] = "done"]

-----------------------------------------------------------------------------

Step(r) ==
    \/ StartHotels(r)
    \/ HotelsReply(r)
    \/ StartList(r)
    \/ StartMe(r)
    \/ ListReservationsReply(r)
    \/ ListPaymentReply(r)
    \/ MeLoyaltyReply(r)
    \/ StartGet(r)
    \/ GetReservationReply(r)
    \/ GetPaymentReply(r)
    \/ StartCancel(r)
    \/ CancelDeleteReply(r)
    \/ CancelPaymentReply(r)
    \/ CancelPaymentDeleteReply(r)
    \/ StartCreate(r)
    \/ CreateReservationReply(r)
    \/ CreateLoyaltyReply(r)
    \/ CreatePaymentReply(r)
    \/ CreateLoyaltyUpdateReply(r)
    \/ StartLoyalty(r)
    \/ LoyaltyReply(r)

Next == \E r \in Active : Step(r)

Spec == Init /\ [][Next]_vars

\* Two requests served concurrently, their steps interleaved in any order:
\* the workflows that keep a backend reply in a local across a later call
\* (get, cancel) and the two single-call routes.
StepConcurrent(r) ==
    \/ StartHotels(r)
    \/ HotelsReply(r)
    \/ StartGet(r)
    \/ GetReservationReply(r)
    \/ GetPaymentReply(r)
    \/ StartCancel(r)
    \/ CancelDeleteReply(r)
    \/ CancelPaymentReply(r)
    \/ CancelPaymentDeleteReply(r)
    \/ StartLoyalty(r)
    \/ LoyaltyReply(r)

NextConcurrent == \E r \in Reqs : StepConcurrent(r)

SpecConcurrent == Init /\ [][NextConcurrent]_vars

-----------------------------------------------------------------------------
\* Vocabulary of the properties

Done(r, op) == pc[r] = "done" /\ req[r].op = op

\* The reply of the i-th backend call of r has arrived.
Replied(r, i) == Len(replies[r]) >= i

\* The payment service holds no record for the identifier looked up: it
\* answers not-found, or a 2xx with no content, null or an empty object.
NoPaymentRecord(reply) ==
    \/ reply.kind \in {"404", "empty"}
    \/ reply.kind = "json" /\ reply.body \in {JNull, JEmptyObj}

\* The payment service answers with a payment record.
PaymentRecord(reply) == reply.kind = "json" /\ reply.body \in BackendPayments

\* The reservation service answered a read with a reservation.
ReservationRead(reply) == reply.kind = "json" /\ reply.body \in BackendReservations

\* A payment as embedded in a reservation: a full snapshot.
FullPayment(p) == p.t = "payment" /\ HasKey(p, "status") /\ HasKey(p, "price")

EmptyPayment == [t |-> "empty"]

\* The reservations in the body of a successful response of r.
Returned(r) ==
    IF resp[r].status # 200 THEN {}
    ELSE IF resp[r].body.t = "list"
    THEN {resp[r].body.items[i] : i \in 1..Len(resp[r].body.items)}
    ELSE IF resp[r].body.t \in {"reservation", "created"} THEN {resp[r].body}
    ELSE {}

\* C1: on the read paths (list, get) every reservation of a successful
\* response has a status in {RESERVED, PAID, CANCELED} and a payment that is
\* either empty, with status RESERVED, or a full payment snapshot without a
\* payment identifier.
C1_ReadReservationShape ==
    \A r \in Reqs :
        (Done(r, "list") \/ Done(r, "get")) =>
            \A x \in Returned(r) :
                /\ HasKey(x, "status") /\ HasKey(x, "payment")
                /\ x.status \in ReservationStatus
                /\ \/ x.payment = EmptyPayment /\ x.status = "RESERVED"
                   \/ FullPayment(x.payment) /\ ~HasKey(x.payment, "paymentUid")

\* The merged view the merge policy prescribes for a reservation and the
\* reply of its payment lookup.
Prescribed(x, reservation, reply) ==
    /\ x.reservationUid = reservation.reservationUid
    /\ NoPaymentRecord(reply) => x.status = "RESERVED" /\ x.payment = EmptyPayment
    /\ PaymentRecord(reply) =>
            /\ x.status = reply.body.status
            /\ FullPayment(x.payment)
            /\ x.payment.status = reply.body.status
            /\ x.payment.price = reply.body.price

Settled(reply) == NoPaymentRecord(reply) \/ PaymentRecord(reply)

\* C2: merge policy of list and get: when the reservation service returned
\* reservations and every payment lookup found either no record or a record,
\* the operation succeeds and returns each reservation with status RESERVED
\* and an empty payment (no record) or with the payment's status and the
\* payment embedded (record).
C2_MergePolicy ==
    \A r \in Reqs :
        /\ (Done(r, "get") /\ Replied(r, 2) /\ ReservationRead(replies[r][1])
                /\ Settled(replies[r][2])) =>
                /\ resp[r].status = 200
                /\ resp[r].body.t = "reservation"
                /\ Prescribed(resp[r].body, replies[r][1].body, replies[r][2])
        /\ (Done(r, "list") /\ Replied(r, 2)
                /\ \A i \in 2..Len(replies[r]) : Settled(replies[r][i])) =>
                /\ resp[r].status = 200
                /\ resp[r].body.t = "list"
                /\ Len(resp[r].body.items) = Len(replies[r][1].body.items)
                /\ \A i \in 1..Len(resp[r].body.items) :
                        Prescribed(resp[r].body.items[i], replies[r][1].body.items[i],
                                   replies[r][i + 1])

\* Payment creation failed: the payment service was unreachable, answered a
\* non-2xx, or returned no payment record (nothing, null, {} or an object
\* that is no payment).
PaymentCreateFailed(reply) == ~PaymentRecord(reply)

\* C3: create reservation: when the payment-creation call failed, a
\* reservation returned to the client does not have status PAID and carries
\* no malformed or partial payment object.
C3_FailedPaymentNotPaid ==
    \A r \in Reqs :
        (Done(r, "create") /\ Replied(r, 3) /\ PaymentCreateFailed(replies[r][3])) =>
            \A x \in Returned(r) :
                /\ x.status # "PAID"
                /\ HasKey(x, "payment") =>
                        (x.payment = EmptyPayment \/ FullPayment(x.payment))

\* A reservation is returned although the payment service returned nothing.
C3_Witness ==
    \E r \in Reqs :
        /\ Done(r, "create") /\ Replied(r, 3)
        /\ replies[r][3].kind = "empty"
        /\ Returned(r) # {}

\* Step 1 failed: the reservation service was unreachable, answered a
\* non-2xx, or returned no reservation.
StepOneFailed(reply) ==
    \/ reply.kind \in {"conn", "404", "5xx", "empty"}
    \/ reply.kind = "json" /\ reply.body \in {JNull, JEmptyObj}

\* C4: create reservation: when step 1 (the reservation POST) failed, the
\* workflow has ended and no later backend call was issued.
C4_AbortAfterFailedCreate ==
    \A r \in Reqs :
        (req[r].op = "create" /\ Replied(r, 1) /\ StepOneFailed(replies[r][1])) =>
            /\ pc[r] = "done"
            /\ Len(calls[r]) = 1

\* The reservation service answered the POST with an error.
C4_Witness ==
    \E r \in Reqs :
        /\ Done(r, "create") /\ Replied(r, 1)
        /\ replies[r][1].kind = "5xx"
        /\ calls[r][1].method = "POST"

CallShape(c) == <<c.svc, c.method, c.path>>

CreateOrder ==
    << <<"reservation", "POST", "/reservations">>,
       <<"loyalty", "GET", "/loyalty">>,
       <<"payment", "POST", "/payment">>,
       <<"loyalty", "POST", "/loyalty">> >>

\* C5: create reservation issues its calls in the order reservation-create,
\* loyalty-lookup, payment-create, loyalty-update; the loyalty update is
\* issued exactly when the payment-create call returned a payment, and then
\* a returned reservation carries that payment and its status.
C5_CreateCallOrder ==
    \A r \in Reqs :
        req[r].op = "create" =>
            /\ Len(calls[r]) <= Len(CreateOrder)
            /\ \A i \in 1..Len(calls[r]) : CallShape(calls[r][i]) = CreateOrder[i]
            /\ (Len(calls[r]) = 4) <=> (Replied(r, 3) /\ PaymentRecord(replies[r][3]))
            /\ (pc[r] = "done" /\ Replied(r, 3) /\ PaymentRecord(replies[r][3])) =>
                    \A x \in Returned(r) :
                        /\ HasKey(x, "payment")
                        /\ FullPayment(x.payment)
                        /\ x.payment.status = replies[r][3].body.status
                        /\ x.payment.price = replies[r][3].body.price
                        /\ x.status = replies[r][3].body.status

\* All four calls were issued and the reservation was returned.
C5_Witness ==
    \E r \in Reqs :
        /\ Done(r, "create")
        /\ Len(calls[r]) = 4
        /\ Returned(r) # {}

\* C6: the price of the payment-creation request is nightly price x nights
\* x (1 - discount/100), with the discount of the same request's loyalty
\* lookup (in hundredths: 3 nights at 100 with 10% gives 270.00).
C6_PayablePrice ==
    \A r \in Reqs :
        (req[r].op = "create" /\ Len(calls[r]) >= 3) =>
            LET created == replies[r][1].body
                discount == replies[r][2].body.discount
                nights == ToOrdinal(created.endDate) - ToOrdinal(created.startDate)
                sent == calls[r][3].json.price
            IN /\ sent = created.price * nights * 100 - created.price * nights * discount
               /\ (created.startDate = <<2024, 1, 1>> /\ created.endDate = <<2024, 1, 4>>
                      /\ created.price = 100 /\ discount = 10) => sent = 27000
               /\ (created.startDate = <<2024, 2, 28>> /\ created.endDate = <<2024, 3, 1>>
                      /\ created.price = 150 /\ discount = 0) => sent = 30000

\* 2024-01-01 to 2024-01-04 at 100 a night with a 10% discount.
C6_Witness ==
    \E r \in Reqs :
        /\ req[r].op = "create" /\ Len(calls[r]) >= 3
        /\ replies[r][1].body.startDate = <<2024, 1, 1>>
        /\ replies[r][1].body.endDate = <<2024, 1, 4>>
        /\ replies[r][1].body.price = 100
        /\ replies[r][2].body.discount = 10
        /\ calls[r][3].json.price = 27000

\* The service reported the deletion with nothing to return: no content, or
\* a null body.
DeleteSucceeded(reply) ==
    \/ reply.kind = "empty"
    \/ reply.kind = "json" /\ reply.body = JNull

\* Cancel: the reservation was deleted and there is no payment to reconcile.
DeletedNoPayment(r) ==
    /\ Replied(r, 2)
    /\ DeleteSucceeded(replies[r][1])
    /\ NoPaymentRecord(replies[r][2])

\* Cancel: the reservation and its payment were both deleted.
DeletedWithPayment(r) ==
    /\ Replied(r, 3)
    /\ DeleteSucceeded(replies[r][1])
    /\ PaymentRecord(replies[r][2])
    /\ DeleteSucceeded(replies[r][3])

\* C7: cancel: when the reservation deletion succeeded and no payment record
\* exists, the result is the nothing-to-reconcile outcome (501), never a
\* generic success.
C7_NoPaymentNotImplemented ==
    \A r \in Reqs :
        (Done(r, "cancel") /\ DeletedNoPayment(r)) =>
            /\ result[r] = Return(IntVal(501))
            /\ resp[r].status = 501

\* C8: cancel: no-content success (204) is the result when the reservation
\* and its payment were both deleted, and only then.
C8_NoContentOnlyWhenBothDeleted ==
    \A r \in Reqs :
        (Done(r, "cancel") /\ Len(calls[r]) >= 1) =>
            (resp[r].status = 204 <=> DeletedWithPayment(r))

\* C9: cancel: every other combination of backend outcomes is reported as
\* a gateway-timeout failure (504).
C9_OtherwiseGatewayTimeout ==
    \A r \in Reqs :
        (Done(r, "cancel") /\ Len(calls[r]) >= 1
            /\ ~DeletedNoPayment(r) /\ ~DeletedWithPayment(r)) =>
            resp[r].status = 504

IdentityScoped == {"list", "create", "get", "cancel", "me", "loyalty"}

\* C10: on an identity-scoped endpoint a request without the X-User-Name
\* header issues no backend call and is answered with an error.
C10_NoHeaderNoBackendCall ==
    \A r \in Reqs :
        (req[r].op \in IdentityScoped /\ req[r].user = NoHeader) =>
            /\ calls[r] = <<>>
            /\ pc[r] = "done"
            /\ resp[r].status >= 400

\* The schema make_request validates the reply of call c against, in the
\* operation op (NoSchema when the call passes none).
SchemaOf(op, c) ==
    CASE c.path = "/hotels" -> "page"
      [] c.path = "/reservations" /\ c.method = "GET" /\ c.key = "-" -> "reservations"
      [] c.path = "/reservations" /\ c.method = "GET" /\ c.key # "-" -> "reservation"
      [] c.path = "/loyalty" /\ c.method = "GET" /\ op = "me" -> "loyalty"
      [] OTHER -> NoSchema

\* The reply of the i-th call of r has a body that fails the shape validation
\* of that call.
ShapeMismatch(r, i) ==
    /\ Replied(r, i)
    /\ replies[r][i].kind = "json"
    /\ SchemaOf(req[r].op, calls[r][i]) # NoSchema
    /\ ~ValidBody(SchemaOf(req[r].op, calls[r][i]), replies[r][i].body)

\* C11: a backend reply whose body fails shape validation never escapes as
\* an unhandled exception: the request ends in the invalid-response-format
\* error.
C11_ShapeMismatchHandled ==
    \A r \in Reqs :
        (pc[r] = "done" /\ \E i \in 1..Len(replies[r]) : ShapeMismatch(r, i)) =>
            /\ resp[r].handled
            /\ resp[r].message = "Invalid response format"

\* The last reply r received is of this kind, on a route that calls its
\* backends through make_request.
FailedWith(r, kind) ==
    /\ pc[r] = "done"
    /\ req[r].op # "loyalty"
    /\ replies[r] # <<>>
    /\ replies[r][Len(replies[r])].kind = kind

\* C12: a failed backend call reaches the client as classified: unreachable
\* as 503 "Service temporarily unavailable", 404 as "Resource not found",
\* any other failure as 500 "Internal service error".
C12_FailureClassification ==
    \A r \in Reqs :
        /\ FailedWith(r, "conn") =>
                /\ resp[r].handled /\ resp[r].status = 503
                /\ resp[r].message = "Service temporarily unavailable"
        /\ FailedWith(r, "404") =>
                /\ resp[r].handled /\ resp[r].message = "Resource not found"
                /\ resp[r].status \notin {500, 503}
        /\ FailedWith(r, "5xx") =>
                /\ resp[r].handled /\ resp[r].status = 500
                /\ resp[r].message = "Internal service error"

\* The reservation service answered the POST with the created reservation.
ReservationCreated(reply) == reply.kind = "json" /\ reply.body \in BackendCreated

\* A backend call failed: unreachable, 404 or another non-2xx.
CallFailed(reply) == reply.kind \in {"conn", "404", "5xx"}

\* C13: no compensation: in create, after the reservation was created, no
\* later call deletes it or goes to the reservation service at all, and a
\* failed loyalty lookup or payment creation ends the workflow at that call;
\* in cancel, after the reservation was deleted, no later call goes to the
\* reservation service to restore it, and a failed payment lookup or payment
\* deletion ends the workflow at that call.
C13_NoCompensation ==
    \A r \in Reqs :
        /\ (req[r].op = "create" /\ Replied(r, 1) /\ ReservationCreated(replies[r][1])) =>
                /\ \A i \in 2..Len(calls[r]) :
                        calls[r][i].method # "DELETE" /\ calls[r][i].svc # "reservation"
                /\ \A i \in 2..Len(replies[r]) :
                        CallFailed(replies[r][i]) => pc[r] = "done" /\ Len(calls[r]) = i
        /\ (req[r].op = "cancel" /\ Replied(r, 1) /\ DeleteSucceeded(replies[r][1])) =>
                /\ \A i \in 2..Len(calls[r]) : calls[r][i].svc # "reservation"
                /\ \A i \in 2..Len(replies[r]) :
                        CallFailed(replies[r][i]) => pc[r] = "done" /\ Len(calls[r]) = i

\* The reservation was created and the payment creation failed.
C13_Witness ==
    \E r \in Reqs :
        /\ Done(r, "create") /\ Replied(r, 3)
        /\ ReservationCreated(replies[r][1])
        /\ replies[r][3].kind = "5xx"
        /\ Len(calls[r]) = 3

\* The reservations the reservation service listed for r.
Listed(r) ==
    IF Replied(r, 1) /\ replies[r][1].kind = "json" /\ replies[r][1].body.t = "list"
    THEN replies[r][1].body.items
    ELSE <<>>

\* The number of steps of the workflow of r that call a backend.
CallBudget(r) ==
    CASE req[r].op \in {"hotels", "loyalty"} -> 1
      [] req[r].op = "get" -> 2
      [] req[r].op = "cancel" -> 3
      [] req[r].op = "create" -> 4
      [] req[r].op = "list" -> 1 + Len(Listed(r))
      [] req[r].op = "me" -> 2 + Len(Listed(r))
      [] OTHER -> 0

\* C14: no automatic retry: a handler issues at most one call per step and
\* has at most one call in flight, and after a failed call no further call
\* is issued: the request has ended with an error response.
C14_NoRetry ==
    \A r \in Reqs :
        /\ Len(calls[r]) <= CallBudget(r)
        /\ Len(replies[r]) <= Len(calls[r])
        /\ Len(calls[r]) <= Len(replies[r]) + 1
        /\ \A i \in 1..Len(replies[r]) :
                CallFailed(replies[r][i]) =>
                    /\ Len(calls[r]) = i
                    /\ pc[r] = "done"
                    /\ resp[r].status >= 400

\* A backend was unreachable on the first call of a request.
C14_Witness ==
    \E r \in Reqs :
        /\ pc[r] = "done" /\ Replied(r, 1)
        /\ replies[r][1].kind = "conn"
        /\ Len(calls[r]) = 1

\* C15 as stated: every backend call of an operation other than the loyalty
\* passthrough carries the X-User-Name header, with the identity of the
\* inbound request.
C15_IdentityOnEveryCall ==
    \A r \in Reqs :
        (req[r].op # "loyalty" /\ req[r].user # NoHeader) =>
            \A i \in 1..Len(calls[r]) : calls[r][i].user = req[r].user

\* C15: every backend call of the reservation and profile operations (list,
\* get, create, cancel, me) carries the X-User-Name header with the identity
\* of the inbound request; the hotel listing call carries no identity header.
C15_IdentityPropagation ==
    \A r \in Reqs :
        /\ req[r].op \in {"list", "get", "create", "cancel", "me"} =>
                \A i \in 1..Len(calls[r]) :
                    calls[r][i].user # NoHeader /\ calls[r][i].user = req[r].user
        /\ req[r].op = "hotels" =>
                \A i \in 1..Len(calls[r]) : calls[r][i].user = NoHeader

\* A request of bob has issued a payment lookup.
C15_Witness ==
    \E r \in Reqs :
        /\ req[r].op \in {"list", "get"} /\ req[r].user = "bob"
        /\ Len(calls[r]) >= 2
        /\ calls[r][2].svc = "payment"

\* The status the merge gives a reservation for the reply of its own payment
\* lookup, and the payment it embeds.
OwnStatus(reply) == IF PaymentRecord(reply) THEN reply.body.status ELSE "RESERVED"

OwnPayment(reply) ==
    IF PaymentRecord(reply) THEN DelKey(reply.body, "paymentUid") ELSE EmptyPayment

\* The reservation list that r reports to its client, if any.
Reported(r) ==
    IF pc[r] = "done" /\ resp[r].status = 200 /\ resp[r].body.t = "list"
    THEN resp[r].body.items
    ELSE IF pc[r] = "done" /\ resp[r].status = 200 /\ resp[r].body.t = "user_info"
            /\ resp[r].body.reservations.t = "list"
    THEN resp[r].body.reservations.items
    ELSE <<>>

\* C16: list user reservations merges per reservation: the i-th reported
\* reservation is the i-th listed one, with the status and payment that its
\* own payment lookup alone determines; a failed lookup ends the operation
\* with that failure, so it changes no other reservation's reported state.
C16_IndependentMerge ==
    \A r \in Reqs :
        req[r].op \in {"list", "me"} =>
            /\ \A i \in 1..Len(Reported(r)) :
                    /\ Replied(r, i + 1)
                    /\ Reported(r)[i].reservationUid = Listed(r)[i].reservationUid
                    /\ Reported(r)[i].status = OwnStatus(replies[r][i + 1])
                    /\ Reported(r)[i].payment = OwnPayment(replies[r][i + 1])
            /\ \A i \in 2..Len(replies[r]) :
                    (calls[r][i].svc = "payment" /\ CallFailed(replies[r][i])) =>
                        /\ pc[r] = "done"
                        /\ result[r].k = "raise"
                        /\ Reported(r) = <<>>

\* Two reservations are reported, the first paid, the second without payment.
C16_Witness ==
    \E r \in Reqs :
        /\ Done(r, "list")
        /\ Len(Reported(r)) = 2
        /\ PaymentRecord(replies[r][2])
        /\ ~PaymentRecord(replies[r][3])
        /\ Reported(r)[1].status = "PAID"
        /\ Reported(r)[2].status = "RESERVED"

\* C17: every reservation returned by create reservation has a status in
\* {RESERVED, PAID, CANCELED} and a payment field that is either an empty
\* object or a full payment snapshot, and an embedded payment carries no
\* payment identifier.
C17_CreatedReservationShape ==
    \A r \in Reqs :
        Done(r, "create") =>
            \A x \in Returned(r) :
                /\ HasKey(x, "status") /\ HasKey(x, "payment")
                /\ x.status \in ReservationStatus
                /\ \/ x.payment = EmptyPayment
                   \/ FullPayment(x.payment) /\ ~HasKey(x.payment, "paymentUid")

\* C19: the HTTP status of the DELETE /api/v1/reservations/{uid} response is
\* the outcome that the cancel workflow computed: 204 only for the success
\* outcome, 501 for nothing-to-reconcile, 504 for the gateway-timeout outcome.
C19_CancelStatusIsOutcome ==
    \A r \in Reqs :
        (Done(r, "cancel") /\ result[r].k = "ret") =>
            /\ result[r].v \in {IntVal(204), IntVal(501), IntVal(504)}
            /\ resp[r].status = result[r].v.n

\* A payment lookup that succeeded: no record, or a payment record.
LookupSucceeded(reply) ==
    \/ reply.kind = "empty"
    \/ reply.kind = "json" /\ reply.body \in {JNull, JEmptyObj} \cup BackendPayments

\* The reservation service answered the list call with a list.
ListReturned(r) ==
    /\ Replied(r, 1)
    /\ replies[r][1].kind = "json"
    /\ replies[r][1].body \in BackendReservationLists

\* C20: list user reservations: when the reservation service returns a list
\* of n >= 0 reservations and every payment lookup succeeds, exactly n payment
\* lookups are issued, one per reservation in list order, and the result is a
\* list of exactly n merged reservations in the order of the backend list (an
\* empty list for n = 0).
C20_ListLength ==
    \A r \in Reqs :
        (/\ Done(r, "list")
         /\ ListReturned(r)
         /\ \A i \in 2..Len(replies[r]) : LookupSucceeded(replies[r][i])) =>
            /\ Len(calls[r]) = 1 + Len(Listed(r))
            /\ \A i \in 1..Len(Listed(r)) :
                    calls[r][i + 1] = PaymentLookup(req[r].user, Listed(r)[i])
            /\ resp[r].status = 200
            /\ resp[r].body.t = "list"
            /\ Len(resp[r].body.items) = Len(Listed(r))
            /\ \A i \in 1..Len(Listed(r)) :
                    resp[r].body.items[i].reservationUid = Listed(r)[i].reservationUid

-----------------------------------------------------------------------------
\* The handlers as functions of the request and of the replies received so
\* far: the backend calls issued and, once the handler has ended, its outcome.

Run(cs, outcome) == [calls |-> cs, out |-> outcome]

\* ServiceClient.get_hotels
get_hotels(args, rs) ==
    LET c1 == Call("reservation", "GET", "/hotels", "-", NoHeader, args) IN
    IF Len(rs) < 1 THEN Run(<<c1>>, NoOutcome)
    ELSE Run(<<c1>>, make_request("page", rs[1]))

\* ServiceClient.get_reservation_by_id
get_reservation_by_id(username, reservation_uid, rs) ==
    LET c1 == Call("reservation", "GET", "/reservations", reservation_uid, username, None) IN
    IF Len(rs) < 1 THEN Run(<<c1>>, NoOutcome)
    ELSE LET reservation == make_request("reservation", rs[1]) IN
         IF reservation.k = "raise" THEN Run(<<c1>>, reservation)
         ELSE IF ~Truthy(reservation.v) THEN Run(<<c1>>, Return(None))
         ELSE LET c2 == PaymentLookup(username, reservation.v) IN
              IF Len(rs) < 2 THEN Run(<<c1, c2>>, NoOutcome)
              ELSE LET payment == make_request(NoSchema, rs[2]) IN
                   IF payment.k = "raise" THEN Run(<<c1, c2>>, payment)
                   ELSE Run(<<c1, c2>>, merge(reservation.v, payment.v))

\* ServiceClient.delete_reservation_by_id
delete_reservation_by_id(username, reservation_uid, rs) ==
    LET c1 == Call("reservation", "DELETE", "/reservations", reservation_uid, username, None)
        c2 == Call("payment", "GET", "/payment", reservation_uid, username, None)
    IN
    IF Len(rs) < 1 THEN Run(<<c1>>, NoOutcome)
    ELSE LET reservation == make_request(NoSchema, rs[1]) IN
         IF reservation.k = "raise" THEN Run(<<c1>>, reservation)
         ELSE IF reservation.v # None THEN Run(<<c1>>, Return(IntVal(504)))
         ELSE IF Len(rs) < 2 THEN Run(<<c1, c2>>, NoOutcome)
         ELSE LET payment == make_request(NoSchema, rs[2]) IN
              IF payment.k = "raise" THEN Run(<<c1, c2>>, payment)
              ELSE IF ~Truthy(payment.v) THEN Run(<<c1, c2>>, Return(IntVal(501)))
              ELSE IF ~HasKey(payment.v, "paymentUid")
              THEN Run(<<c1, c2>>, Raise("KeyError", "paymentUid"))
              ELSE LET c3 == Call("payment", "DELETE", "/payment",
                                  payment.v.paymentUid, username, None)
                   IN
                   IF Len(rs) < 3 THEN Run(<<c1, c2, c3>>, NoOutcome)
                   ELSE LET delete_payment == make_request(NoSchema, rs[3]) IN
                        IF delete_payment.k = "raise"
                        THEN Run(<<c1, c2, c3>>, delete_payment)
                        ELSE IF delete_payment.v = None
                        THEN Run(<<c1, c2, c3>>, Return(IntVal(204)))
                        ELSE Run(<<c1, c2, c3>>, Return(IntVal(504)))

\* What the route of request q has sent and answered after the replies rs.
Served(cs, response, done) == [calls |-> cs, resp |-> response, done |-> done]

ServedRun(op, run) ==
    IF run.out = NoOutcome
    THEN Served(run.calls, NoResp, FALSE)
    ELSE Served(run.calls, RouteResponse(op, run.out), TRUE)

Route(q, rs) ==
    CASE q.op = "hotels" -> ServedRun(q.op, get_hotels(q.data, rs))
      [] q.op = "loyalty" ->
            IF Len(rs) < 1
            THEN Served(<<LoyaltyLookup(q.user)>>, NoResp, FALSE)
            ELSE Served(<<LoyaltyLookup(q.user)>>, passthrough(rs[1]), TRUE)
      [] q.op \in {"get", "cancel"} /\ _check_user_header(q.user).k = "raise" ->
            Served(<<>>, RouteResponse(q.op, _check_user_header(q.user)), TRUE)
      [] q.op = "get" -> ServedRun(q.op, get_reservation_by_id(q.user, q.uid, rs))
      [] q.op = "cancel" -> ServedRun(q.op, delete_reservation_by_id(q.user, q.uid, rs))
      [] OTHER -> Served(<<>>, NoResp, FALSE)

====
